---- MODULE Spec2Model ----
(***************************************************************************)
(* Firewood location-allocation: two-pass greedy allocator                 *)
(* (src/firewood_allocation.py).  Volumes and distances are modelled as    *)
(* integers; a map is a function whose DOMAIN is the set of its keys.      *)
(***************************************************************************)
EXTENDS Integers, Sequences, FiniteSets, TLC

\* ---------------------------------------------------------------- bounds
MaxVol == 2
MaxDist == 2
MaxPairs == 2
MaxCutoff == 1
MaxTotal == 4

Names == {"A", "B"}
Vols == (0 - 1)..MaxVol
Dists == 1..MaxDist
\* a cutoff is <<>> (None) or <<km>>
NoCutoff == <<>>
Cutoffs == {NoCutoff} \cup {<<c>> : c \in 1..MaxCutoff}

Rows == [origin_id : Names, destination_id : Names, distance_km : Dists]
Tables == UNION {[1..n -> Rows] : n \in 0..MaxPairs}
DemandSupplyRow == [SUPPLY : Vols, INDUSTRIAL_DEMAND : Vols, RESIDENTIAL_DEMAND : Vols]
Abs(x) == IF x < 0 THEN 0 - x ELSE x
RECURSIVE TotalVolume(_, _)
\* sum of the magnitudes of all cells of df over the names in S
TotalVolume(df, S) ==
    IF S = {} THEN 0
    ELSE LET n == CHOOSE x \in S : TRUE
         IN  Abs(df[n].SUPPLY) + Abs(df[n].INDUSTRIAL_DEMAND)
               + Abs(df[n].RESIDENTIAL_DEMAND) + TotalVolume(df, S \ {n})
DemandSupplyTables ==
    {df \in UNION {[S -> DemandSupplyRow] : S \in SUBSET Names} :
        TotalVolume(df, DOMAIN df) <= MaxTotal}

\* --------------------------------------------------- the worked example
ExampleTable == <<[origin_id |-> "A", destination_id |-> "B", distance_km |-> 5]>>
ExampleDemandSupply ==
    [n \in {"A", "B"} |->
        IF n = "A"
        THEN [SUPPLY |-> 10, INDUSTRIAL_DEMAND |-> 0, RESIDENTIAL_DEMAND |-> 0]
        ELSE [SUPPLY |-> 0, INDUSTRIAL_DEMAND |-> 6, RESIDENTIAL_DEMAND |-> 10]]

ExampleRows == [origin_id : {"A"}, destination_id : {"B"}, distance_km : {2, 5}]
ExampleTables == UNION {[1..n -> ExampleRows] : n \in 1..2}
ExampleDemandSupplyTables ==
    {[n \in {"A", "B"} |->
        IF n = "A"
        THEN [SUPPLY |-> s, INDUSTRIAL_DEMAND |-> 0, RESIDENTIAL_DEMAND |-> 0]
        ELSE [SUPPLY |-> 0, INDUSTRIAL_DEMAND |-> i, RESIDENTIAL_DEMAND |-> r]] :
     s \in {4, 10}, i \in {6, 7}, r \in {3, 10}}
ExampleCutoffs == {NoCutoff, <<3>>, <<50>>}

VARIABLES
    table,                \* rows of the OD file, in file order
    demand_supply,        \* the demand/supply table, keyed by NAME
    cutoff_km,            \* args.cutoff_km (NoCutoff models None)
    od_df,                \* the OD table as returned by load_od
    supply, ind, res,     \* the three lookup dicts of main
    pc,                   \* "start", "industrial", "residential", "done"
    idx,                  \* position of the iterrows loop in od_df
    allocations,          \* greedy_allocate's local list
    total_weighted_cost,  \* greedy_allocate's local running total
    alloc_ind, cost_ind,  \* result of the first call
    alloc_res, cost_res,  \* result of the second call
    alloc_df,             \* concatenated output table
    total_alloc           \* summary: total allocated volume

vars == <<table, demand_supply, cutoff_km, od_df, supply, ind, res, pc, idx,
          allocations, total_weighted_cost, alloc_ind, cost_ind, alloc_res,
          cost_res, alloc_df, total_alloc>>

inputs == <<table, demand_supply, cutoff_km>>

\* ------------------------------------------------------------- helpers
EmptyMap == [n \in {} |-> 0]

\* dict.get(key, default)
Get(m, k, default) == IF k \in DOMAIN m THEN m[k] ELSE default

\* m[k] = v : assignment to a dict entry (adds the key when absent)
Put(m, k, v) == [x \in (DOMAIN m) \cup {k} |-> IF x = k THEN v ELSE m[x]]

\* demand_supply.set_index('NAME')[col].to_dict()
Column(df, col) == [n \in DOMAIN df |-> df[n][col]]

RECURSIVE InsertStable(_, _)
\* place row r behind every row whose distance is <= r's (ties keep input order)
InsertStable(sorted, r) ==
    IF sorted = <<>> THEN <<r>>
    ELSE IF sorted[Len(sorted)].distance_km <= r.distance_km
         THEN Append(sorted, r)
         ELSE Append(InsertStable(SubSeq(sorted, 1, Len(sorted) - 1), r),
                     sorted[Len(sorted)])

RECURSIVE InsertBeforeTies(_, _)
InsertBeforeTies(sorted, r) ==
    IF sorted = <<>> THEN <<r>>
    ELSE IF sorted[Len(sorted)].distance_km < r.distance_km
         THEN Append(sorted, r)
         ELSE Append(InsertBeforeTies(SubSeq(sorted, 1, Len(sorted) - 1), r),
                     sorted[Len(sorted)])

RECURSIVE SortUnstable(_)
\* sorts by distance but reverses the input order of ties
SortUnstable(t) ==
    IF t = <<>> THEN <<>>
    ELSE InsertBeforeTies(SortUnstable(SubSeq(t, 1, Len(t) - 1)), t[Len(t)])

RECURSIVE SortByDistance(_)
\* od.sort_values('distance_km', kind='mergesort'): stable ascending sort
SortByDistance(t) ==
    IF t = <<>> THEN <<>>
    ELSE InsertStable(SortByDistance(SubSeq(t, 1, Len(t) - 1)), t[Len(t)])

\* `cutoff_km is not None and dist > cutoff_km`
CutoffSkipsStrict(dist, cutoff) == cutoff # NoCutoff /\ dist >= cutoff[1]
CutoffSkipsNever(dist, cutoff) == FALSE
CutoffSkips(dist, cutoff) == cutoff # NoCutoff /\ dist > cutoff[1]

\* supply_map.get(o, 0.0) / demand_map.get(d, 0.0)
LeftDefaultOne(m, k) == Get(m, k, 1)
Left(m, k) == Get(m, k, 0)

\* `s_left <= 0.0 or d_left <= 0.0`
NoCapacity(s, d) == s <= 0 \/ d <= 0

\* `alloc = s_left if s_left < d_left else d_left`
AllocAmountMax(s, d) == IF s < d THEN d ELSE s
AllocAmountOne(s, d) == 1
AllocAmount(s, d) == IF s < d THEN s ELSE d

\* `wcost = alloc * dist`
WeightedCostSum(alloc, dist) == alloc + dist
WeightedCost(alloc, dist) == alloc * dist

\* the dict appended to `allocations`
RecordUnlabelled(row, alloc, demand_type) ==
    [origin_id |-> row.origin_id, destination_id |-> row.destination_id,
     allocated_volume |-> alloc, distance_km |-> row.distance_km,
     demand_type |-> "industrial",
     weighted_cost |-> WeightedCost(alloc, row.distance_km)]
Record(row, alloc, demand_type) ==
    [origin_id |-> row.origin_id, destination_id |-> row.destination_id,
     allocated_volume |-> alloc, distance_km |-> row.distance_km,
     demand_type |-> demand_type,
     weighted_cost |-> WeightedCost(alloc, row.distance_km)]

RECURSIVE SumVolume(_)
SumVolume(recs) ==
    IF recs = <<>> THEN 0
    ELSE SumVolume(SubSeq(recs, 1, Len(recs) - 1)) + recs[Len(recs)].allocated_volume

RECURSIVE SumCost(_)
SumCost(recs) ==
    IF recs = <<>> THEN 0
    ELSE SumCost(SubSeq(recs, 1, Len(recs) - 1)) + recs[Len(recs)].weighted_cost

\* one iteration of the loop of greedy_allocate, as a function of its state
SkipsRow(row, supply_map, demand_map, cutoff) ==
    \/ CutoffSkips(row.distance_km, cutoff)
    \/ NoCapacity(Left(supply_map, row.origin_id), Left(demand_map, row.destination_id))
    \/ AllocAmount(Left(supply_map, row.origin_id),
                   Left(demand_map, row.destination_id)) <= 0

SupplyAfterNetting(row, supply_map, demand_map) ==
    LET alloc == AllocAmount(Left(supply_map, row.origin_id),
                             Left(demand_map, row.destination_id))
        s1 == Put(supply_map, row.origin_id, Left(supply_map, row.origin_id) - alloc)
    IN  IF row.destination_id \in DOMAIN s1 /\ row.destination_id # row.origin_id
        THEN Put(s1, row.destination_id, s1[row.destination_id] + alloc)
        ELSE s1
SupplyAfter(row, supply_map, demand_map) ==
    Put(supply_map, row.origin_id,
        Left(supply_map, row.origin_id)
          - AllocAmount(Left(supply_map, row.origin_id),
                        Left(demand_map, row.destination_id)))

DemandAfter(row, supply_map, demand_map) ==
    Put(demand_map, row.destination_id,
        Left(demand_map, row.destination_id)
          - AllocAmount(Left(supply_map, row.origin_id),
                        Left(demand_map, row.destination_id)))

AllocStep(st, row, demand_type, cutoff) ==
    IF SkipsRow(row, st.supply_map, st.demand_map, cutoff) THEN st
    ELSE LET alloc == AllocAmount(Left(st.supply_map, row.origin_id),
                                  Left(st.demand_map, row.destination_id))
         IN  [supply_map |-> SupplyAfter(row, st.supply_map, st.demand_map),
              demand_map |-> DemandAfter(row, st.supply_map, st.demand_map),
              allocations |-> Append(st.allocations, Record(row, alloc, demand_type)),
              total_weighted_cost |->
                  st.total_weighted_cost + WeightedCost(alloc, row.distance_km)]

RECURSIVE GreedyAllocate(_, _, _, _, _)
\* a whole call of greedy_allocate: the loop folded over od
GreedyAllocate(od, supply_map, demand_map, demand_type, cutoff) ==
    IF od = <<>>
    THEN [supply_map |-> supply_map, demand_map |-> demand_map,
          allocations |-> <<>>, total_weighted_cost |-> 0]
    ELSE AllocStep(GreedyAllocate(SubSeq(od, 1, Len(od) - 1), supply_map,
                                  demand_map, demand_type, cutoff),
                   od[Len(od)], demand_type, cutoff)

\* the two calls of main on a given (already sorted) OD table
RunMain(od, df, cutoff) ==
    LET p1 == GreedyAllocate(od, Column(df, "SUPPLY"),
                             Column(df, "INDUSTRIAL_DEMAND"), "industrial", cutoff)
        p2 == GreedyAllocate(od, p1.supply_map,
                             Column(df, "RESIDENTIAL_DEMAND"), "residential", cutoff)
    IN  [alloc_df |-> p1.allocations \o p2.allocations,
         cost_ind |-> p1.total_weighted_cost, cost_res |-> p2.total_weighted_cost,
         supply |-> p2.supply_map, ind |-> p1.demand_map, res |-> p2.demand_map]

\* ------------------------------------------------------------- actions
InPass == pc \in {"industrial", "residential"}
HasRow == InPass /\ idx <= Len(od_df)
CurRow == od_df[idx]
DemandMap == IF pc = "industrial" THEN ind ELSE res
s_left == Left(supply, CurRow.origin_id)
d_left == Left(DemandMap, CurRow.destination_id)

StartState ==
    /\ od_df = <<>>
    /\ supply = EmptyMap /\ ind = EmptyMap /\ res = EmptyMap
    /\ pc = "start"
    /\ idx = 1
    /\ allocations = <<>> /\ total_weighted_cost = 0
    /\ alloc_ind = <<>> /\ cost_ind = 0
    /\ alloc_res = <<>> /\ cost_res = 0
    /\ alloc_df = <<>> /\ total_alloc = 0

Init ==
    /\ table \in Tables
    /\ demand_supply \in DemandSupplyTables
    /\ cutoff_km \in Cutoffs
    /\ StartState

InitExample ==
    /\ table \in ExampleTables
    /\ demand_supply \in ExampleDemandSupplyTables
    /\ cutoff_km \in ExampleCutoffs
    /\ StartState

\* main, up to the first call of greedy_allocate
Load ==
    /\ pc = "start"
    /\ od_df' = SortByDistance(table)
    /\ supply' = Column(demand_supply, "SUPPLY")
    /\ ind' = Column(demand_supply, "INDUSTRIAL_DEMAND")
    /\ res' = Column(demand_supply, "RESIDENTIAL_DEMAND")
    /\ pc' = "industrial"
    /\ idx' = 1
    /\ allocations' = <<>>
    /\ total_weighted_cost' = 0
    /\ UNCHANGED <<inputs, alloc_ind, cost_ind, alloc_res, cost_res, alloc_df, total_alloc>>

\* loop iteration ended by `continue` at the cutoff test
SkipCutoff ==
    /\ HasRow
    /\ CutoffSkips(CurRow.distance_km, cutoff_km)
    /\ idx' = idx + 1
    /\ UNCHANGED <<inputs, od_df, supply, ind, res, pc, allocations, total_weighted_cost,
                   alloc_ind, cost_ind, alloc_res, cost_res, alloc_df, total_alloc>>

\* loop iteration ended by `continue` at the capacity tests
SkipNoCapacity ==
    /\ HasRow
    /\ ~CutoffSkips(CurRow.distance_km, cutoff_km)
    /\ NoCapacity(s_left, d_left) \/ AllocAmount(s_left, d_left) <= 0
    /\ idx' = idx + 1
    /\ UNCHANGED <<inputs, od_df, supply, ind, res, pc, allocations, total_weighted_cost,
                   alloc_ind, cost_ind, alloc_res, cost_res, alloc_df, total_alloc>>

\* loop iteration that allocates
Allocate ==
    /\ HasRow
    /\ ~SkipsRow(CurRow, supply, DemandMap, cutoff_km)
    /\ LET st == AllocStep([supply_map |-> supply, demand_map |-> DemandMap,
                            allocations |-> allocations,
                            total_weighted_cost |-> total_weighted_cost],
                           CurRow, pc, cutoff_km)
       IN  /\ supply' = st.supply_map
           /\ IF pc = "industrial"
              THEN ind' = st.demand_map /\ res' = res
              ELSE res' = st.demand_map /\ ind' = ind
           /\ allocations' = st.allocations
           /\ total_weighted_cost' = st.total_weighted_cost
    /\ idx' = idx + 1
    /\ UNCHANGED <<inputs, od_df, pc, alloc_ind, cost_ind, alloc_res, cost_res,
                   alloc_df, total_alloc>>

\* first call returns; second call begins
ReturnIndustrial ==
    /\ pc = "industrial"
    /\ idx > Len(od_df)
    /\ alloc_ind' = allocations
    /\ cost_ind' = total_weighted_cost
    /\ pc' = "residential"
    /\ idx' = 1
    /\ allocations' = <<>>
    /\ total_weighted_cost' = 0
    /\ UNCHANGED <<inputs, od_df, supply, ind, res, alloc_res, cost_res, alloc_df, total_alloc>>

\* second call returns; main concatenates and sums
ReturnResidential ==
    /\ pc = "residential"
    /\ idx > Len(od_df)
    /\ alloc_res' = allocations
    /\ cost_res' = total_weighted_cost
    /\ alloc_df' = alloc_ind \o allocations
    /\ total_alloc' = SumVolume(alloc_ind \o allocations)
    /\ pc' = "done"
    /\ UNCHANGED <<inputs, od_df, supply, ind, res, idx, allocations, total_weighted_cost,
                   alloc_ind, cost_ind>>

Next ==
    \/ Load
    \/ SkipCutoff
    \/ SkipNoCapacity
    \/ Allocate
    \/ ReturnIndustrial
    \/ ReturnResidential

Spec == Init /\ [][Next]_vars
SpecExample == InitExample /\ [][Next]_vars

TypeOK ==
    /\ pc \in {"start", "industrial", "residential", "done"}
    /\ idx \in 1..(Len(od_df) + 1)
    /\ DOMAIN supply \subseteq Names
    /\ DOMAIN ind = DOMAIN supply /\ DOMAIN res = DOMAIN supply

\* ------------------------------------------------- vocabulary of the claims
\* value of a map at a location, an absent location counting as zero
Remaining(m, k) == IF k \in DOMAIN m THEN m[k] ELSE 0

RECURSIVE VolumeFrom(_, _)
\* total allocated_volume of the records of recs whose origin is L
VolumeFrom(recs, L) ==
    IF recs = <<>> THEN 0
    ELSE (IF Head(recs).origin_id = L THEN Head(recs).allocated_volume ELSE 0)
           + VolumeFrom(Tail(recs), L)

RECURSIVE VolumeTo(_, _)
\* total allocated_volume of the records of recs whose destination is L
VolumeTo(recs, L) ==
    IF recs = <<>> THEN 0
    ELSE (IF Head(recs).destination_id = L THEN Head(recs).allocated_volume ELSE 0)
           + VolumeTo(Tail(recs), L)

RECURSIVE TotalOf(_, _)
\* arithmetic sum of one field over a sequence of records
TotalOf(recs, field) ==
    IF recs = <<>> THEN 0 ELSE Head(recs)[field] + TotalOf(Tail(recs), field)

Range(q) == {q[i] : i \in 1..Len(q)}
InitialSupply == Column(demand_supply, "SUPPLY")
InitialInd == Column(demand_supply, "INDUSTRIAL_DEMAND")
InitialRes == Column(demand_supply, "RESIDENTIAL_DEMAND")
WithinCutoff(row) == cutoff_km = NoCutoff \/ row.distance_km <= cutoff_km[1]
Emitted ==
    /\ HasRow
    /\ Len(allocations') = Len(allocations) + 1
    /\ SubSeq(allocations', 1, Len(allocations)) = allocations
LastRecord == allocations'[Len(allocations')]
AllRecords == Range(allocations) \cup Range(alloc_ind) \cup Range(alloc_res) \cup Range(alloc_df)

\* ------------------------------------------------------------------ C1
ConservationEq ==
    \A L \in Names :
        /\ Remaining(InitialSupply, L) - VolumeFrom(alloc_ind \o alloc_res, L)
             = Remaining(supply, L)
        /\ Remaining(InitialInd, L) - VolumeTo(alloc_ind, L) = Remaining(ind, L)
        /\ Remaining(InitialRes, L) - VolumeTo(alloc_res, L) = Remaining(res, L)

\* C1 (as claimed): after a full run, for every location, initial supply minus
\* the volume allocated from it equals the remaining supply, and likewise for
\* each demand class, and every remaining value is >= 0, for every input.
C1_ConservationNonNegative ==
    pc = "done" =>
        /\ ConservationEq
        /\ \A L \in Names :
              Remaining(supply, L) >= 0 /\ Remaining(ind, L) >= 0 /\ Remaining(res, L) >= 0

\* C1 (amended): after a full run the conservation equalities hold for every
\* location, and a remaining value is >= 0 whenever its initial value is >= 0;
\* a negative initial value is never allocated from and stays as it was.
C1_Conservation ==
    pc = "done" =>
        /\ ConservationEq
        /\ \A L \in Names :
              /\ Remaining(supply, L) >= (IF Remaining(InitialSupply, L) < 0
                                          THEN Remaining(InitialSupply, L) ELSE 0)
              /\ Remaining(ind, L) >= (IF Remaining(InitialInd, L) < 0
                                       THEN Remaining(InitialInd, L) ELSE 0)
              /\ Remaining(res, L) >= (IF Remaining(InitialRes, L) < 0
                                       THEN Remaining(InitialRes, L) ELSE 0)
              /\ Remaining(InitialSupply, L) < 0 => Remaining(supply, L) = Remaining(InitialSupply, L)
              /\ Remaining(InitialInd, L) < 0 => Remaining(ind, L) = Remaining(InitialInd, L)
              /\ Remaining(InitialRes, L) < 0 => Remaining(res, L) = Remaining(InitialRes, L)

C1_Witness ==
    /\ pc = "done"
    /\ alloc_df # <<>>
    /\ \E L \in Names : Remaining(InitialSupply, L) < 0
    /\ \E L \in Names : Remaining(supply, L) > 0

\* ------------------------------------------------------------------ C2
\* C2: every record emitted for a pair (o, d) has allocated_volume > 0 and
\* allocated_volume equal to the minimum of (hence not above) the remaining
\* supply at o and the remaining demand at d as they stood before the step.
C2_NoOverAllocation ==
    [][Emitted =>
          /\ LastRecord.origin_id = CurRow.origin_id
          /\ LastRecord.destination_id = CurRow.destination_id
          /\ LastRecord.allocated_volume > 0
          /\ LastRecord.allocated_volume <= Remaining(supply, CurRow.origin_id)
          /\ LastRecord.allocated_volume <= Remaining(DemandMap, CurRow.destination_id)
          /\ \/ LastRecord.allocated_volume = Remaining(supply, CurRow.origin_id)
             \/ LastRecord.allocated_volume = Remaining(DemandMap, CurRow.destination_id)
      ]_vars

C2_Witness ==
    /\ pc = "residential"
    /\ alloc_ind # <<>>
    /\ allocations # <<>>

\* ------------------------------------------------------------------ C3
\* C3: with a finite cutoff no record has distance_km > cutoff, while a pair
\* at exactly the cutoff is still a candidate; with no cutoff, every pair
\* with positive remaining supply and demand yields a record.
C3_CutoffEnforcement ==
    /\ [](\A r \in AllRecords : cutoff_km # NoCutoff => r.distance_km <= cutoff_km[1])
    /\ [][(/\ HasRow
           /\ WithinCutoff(CurRow)
           /\ Remaining(supply, CurRow.origin_id) > 0
           /\ Remaining(DemandMap, CurRow.destination_id) > 0)
          => /\ Emitted
             /\ LastRecord.origin_id = CurRow.origin_id
             /\ LastRecord.destination_id = CurRow.destination_id
             /\ LastRecord.distance_km = CurRow.distance_km]_vars

C3_Witness ==
    /\ pc = "done"
    /\ cutoff_km # NoCutoff
    /\ \E r \in Range(alloc_df) : r.distance_km = cutoff_km[1]
    /\ \E i \in 1..Len(od_df) :
          /\ od_df[i].distance_km > cutoff_km[1]
          /\ Remaining(supply, od_df[i].origin_id) > 0
          /\ Remaining(res, od_df[i].destination_id) > 0

\* ------------------------------------------------------------------ C4
\* C4: when pass 1 finishes, every pair within the cutoff has remaining supply
\* <= 0 at its origin or remaining industrial demand <= 0 at its destination;
\* so no residential record has an origin from which an in-cutoff pair leads
\* to a destination with industrial demand left.
C4_IndustrialPriority ==
    /\ (pc = "residential" /\ idx = 1) =>
          \A i \in 1..Len(od_df) :
              WithinCutoff(od_df[i]) =>
                  \/ Remaining(supply, od_df[i].origin_id) <= 0
                  \/ Remaining(ind, od_df[i].destination_id) <= 0
    /\ pc \in {"residential", "done"} =>
          \A r \in Range(allocations) \cup Range(alloc_res) :
              \A i \in 1..Len(od_df) :
                  (od_df[i].origin_id = r.origin_id /\ WithinCutoff(od_df[i]))
                      => Remaining(ind, od_df[i].destination_id) <= 0

C4_Witness ==
    /\ pc = "done"
    /\ alloc_ind # <<>> /\ alloc_res # <<>>
    /\ \E r \in Range(alloc_res) : \E q \in Range(alloc_ind) : q.origin_id = r.origin_id

\* ------------------------------------------------------------------ C5
IsExample ==
    /\ table = ExampleTable
    /\ demand_supply = ExampleDemandSupply
    /\ cutoff_km = <<50>>

\* C5: on the worked example pass 1 allocates 6 (industrial, cost 30, supply A
\* left 4, industrial demand B left 0), pass 2 allocates 4 (residential, cost
\* 20, supply A left 0, residential demand B left 6); total allocated is 10.
C5_WorkedExample ==
    IsExample =>
        /\ (pc = "residential" /\ idx = 1) =>
              /\ supply["A"] = 4 /\ ind["B"] = 0
              /\ Len(alloc_ind) = 1 /\ cost_ind = 30
        /\ pc = "done" =>
              /\ alloc_df =
                   << [origin_id |-> "A", destination_id |-> "B", allocated_volume |-> 6,
                       distance_km |-> 5, demand_type |-> "industrial", weighted_cost |-> 30],
                      [origin_id |-> "A", destination_id |-> "B", allocated_volume |-> 4,
                       distance_km |-> 5, demand_type |-> "residential", weighted_cost |-> 20] >>
              /\ alloc_ind = <<alloc_df[1]>> /\ alloc_res = <<alloc_df[2]>>
              /\ supply["A"] = 0 /\ ind["B"] = 0 /\ res["B"] = 6
              /\ cost_ind = 30 /\ cost_res = 20
              /\ total_alloc = 10

C5_Witness == IsExample /\ pc = "done"

\* ------------------------------------------------------------------ C6
\* q is an order-preserving selection of rows of od (same pair, same distance)
FollowsStream(q, od) ==
    \E f \in [1..Len(q) -> 1..Len(od)] :
        /\ \A i, j \in 1..Len(q) : i < j => f[i] < f[j]
        /\ \A i \in 1..Len(q) :
              /\ q[i].origin_id = od[f[i]].origin_id
              /\ q[i].destination_id = od[f[i]].destination_id
              /\ q[i].distance_km = od[f[i]].distance_km

\* od is t reordered by ascending distance, ties in the order they had in t
IsStableSortOf(od, t) ==
    /\ Len(od) = Len(t)
    /\ \E p \in [1..Len(t) -> 1..Len(t)] :
          /\ \A i, j \in 1..Len(t) : i # j => p[i] # p[j]
          /\ \A i \in 1..Len(t) : od[i] = t[p[i]]
          /\ \A i, j \in 1..Len(t) :
                i < j => /\ od[i].distance_km <= od[j].distance_km
                         /\ od[i].distance_km = od[j].distance_km => p[i] < p[j]

NonDecreasingDistance(q) ==
    \A i, j \in 1..Len(q) : i < j => q[i].distance_km <= q[j].distance_km

\* C6: the output lists every industrial record before every residential one;
\* within a pass the records follow the distance-ordered stream (non-decreasing
\* distance, ties in input order), which is the stable sort of the input table
\* and is read from its beginning by each pass.
C6_OutputOrdering ==
    /\ pc # "start" => IsStableSortOf(od_df, table)
    /\ InPass => FollowsStream(allocations, SubSeq(od_df, 1, idx - 1))
    /\ FollowsStream(alloc_ind, od_df) /\ NonDecreasingDistance(alloc_ind)
    /\ FollowsStream(alloc_res, od_df) /\ NonDecreasingDistance(alloc_res)
    /\ pc = "done" =>
          /\ alloc_df = alloc_ind \o alloc_res
          /\ \A i, j \in 1..Len(alloc_df) :
                (alloc_df[i].demand_type = "industrial"
                   /\ alloc_df[j].demand_type = "residential") => i < j
          /\ \A i \in 1..Len(alloc_df) :
                alloc_df[i].demand_type = (IF i <= Len(alloc_ind) THEN "industrial"
                                           ELSE "residential")

C6_Witness ==
    /\ pc = "done"
    /\ Len(alloc_ind) >= 2
    /\ alloc_ind[1].distance_km = alloc_ind[2].distance_km
    /\ alloc_ind[1] # alloc_ind[2]

\* ------------------------------------------------------------------ C7
SameExceptAt(m1, m2, k) ==
    /\ DOMAIN m1 = DOMAIN m2
    /\ \A x \in DOMAIN m1 : x # k => m1[x] = m2[x]

\* C7: an allocating step on (o, d) changes only supply[o] and the running
\* pass's demand[d]; the other class's demand map is untouched throughout the
\* pass, and supply and demand at one location never net against each other.
C7_Frame ==
    [][/\ Emitted =>
            /\ SameExceptAt(supply, supply', CurRow.origin_id)
            /\ pc = "industrial" =>
                  SameExceptAt(ind, ind', CurRow.destination_id) /\ res' = res
            /\ pc = "residential" =>
                  SameExceptAt(res, res', CurRow.destination_id) /\ ind' = ind
       /\ pc = "industrial" => res' = res /\ res = InitialRes
       /\ pc = "residential" => ind' = ind
      ]_vars

C7_Witness ==
    /\ InPass
    /\ allocations # <<>>
    /\ LET r == allocations[Len(allocations)]
       IN  /\ r.origin_id # r.destination_id
           /\ Remaining(supply, r.destination_id) > 0
           /\ Remaining(DemandMap, r.origin_id) > 0

\* ------------------------------------------------------------------ C8
\* C8: a pair whose origin has no (or no positive) remaining supply, or whose
\* destination has no (or no positive) remaining demand, raises nothing, emits
\* no record, adds no cost and leaves all three maps, keys included, as they
\* were; the pass goes on with the next pair.
C8_SkipHarmless ==
    /\ [](HasRow => ENABLED Next)
    /\ [][(/\ HasRow
           /\ \/ Remaining(supply, CurRow.origin_id) <= 0
              \/ Remaining(DemandMap, CurRow.destination_id) <= 0)
          => /\ supply' = supply /\ ind' = ind /\ res' = res
             /\ allocations' = allocations
             /\ total_weighted_cost' = total_weighted_cost
             /\ pc' = pc /\ idx' = idx + 1]_vars

C8_Witness ==
    /\ InPass /\ idx > 1
    /\ WithinCutoff(od_df[idx - 1])
    /\ od_df[idx - 1].origin_id \notin DOMAIN supply
    /\ Remaining(DemandMap, od_df[idx - 1].destination_id) > 0

\* ------------------------------------------------------------------ C9
\* C9: every record has weighted_cost = allocated_volume * distance_km and the
\* label of its pass; each pass total is the sum of weighted_cost over that
\* pass's records; the grand total is the sum of allocated_volume over both.
C9_CostAccounting ==
    /\ \A r \in AllRecords : r.weighted_cost = r.allocated_volume * r.distance_km
    /\ \A r \in Range(alloc_ind) : r.demand_type = "industrial"
    /\ \A r \in Range(alloc_res) : r.demand_type = "residential"
    /\ InPass => \A r \in Range(allocations) : r.demand_type = pc
    /\ InPass => total_weighted_cost = TotalOf(allocations, "weighted_cost")
    /\ cost_ind = TotalOf(alloc_ind, "weighted_cost")
    /\ cost_res = TotalOf(alloc_res, "weighted_cost")
    /\ pc = "done" =>
          total_alloc = TotalOf(alloc_ind, "allocated_volume")
                          + TotalOf(alloc_res, "allocated_volume")

C9_Witness ==
    /\ pc = "done"
    /\ alloc_ind # <<>> /\ alloc_res # <<>>
    /\ cost_ind # cost_res

\* ------------------------------------------------------------------ C10
KeptByPreFilter(row) ==
    /\ cutoff_km = NoCutoff \/ row.distance_km <= cutoff_km[1]
    /\ row.origin_id \in DOMAIN InitialSupply
    /\ row.destination_id \in (DOMAIN InitialInd) \cup (DOMAIN InitialRes)
PreFiltered == SelectSeq(od_df, KeptByPreFilter)

\* C10: the run on the stream from which over-cutoff pairs and pairs with an
\* origin or destination unknown to the maps were removed beforehand gives the
\* same records, pass totals and final maps as the run on the full stream.
C10_PreFilterEquivalence ==
    pc = "done" =>
        RunMain(PreFiltered, demand_supply, cutoff_km)
          = [alloc_df |-> alloc_df, cost_ind |-> cost_ind, cost_res |-> cost_res,
             supply |-> supply, ind |-> ind, res |-> res]

C10_Witness ==
    /\ pc = "done"
    /\ alloc_df # <<>>
    /\ \E i \in 1..Len(od_df) : ~WithinCutoff(od_df[i])
    /\ \E i \in 1..Len(od_df) : od_df[i].origin_id \notin DOMAIN InitialSupply
====
